---- MODULE Spec2Model ----
(***************************************************************************)
(* A model of makelabels.MakeLabels (src/src/makelabels/makelabels.py):    *)
(* the batch runners run_parallel_pool / run_parallel_threads with the     *)
(* per-row wrapper parallelize, and the two row functions image_chipper    *)
(* and threeclass_label acting on a file system of chips and labels.       *)
(*                                                                         *)
(* Four specifications share the variables:                                *)
(*   SpecBatch  the batch runners over an arbitrary row function           *)
(*   SpecRow    sequential calls of image_chipper / threeclass_label       *)
(*   SpecConc   two workers running a row function on two catalog rows     *)
(*   SpecLabel  the label array of threeclass_label with its three layers  *)
(***************************************************************************)
EXTENDS Integers, Sequences, FiniteSets, TLC

VARIABLES
    \* ---- batch runner state (SpecBatch)
    pc,              \* position of the caller of run_parallel_*
    catalog,         \* rows = catalog.to_dict(orient='records')
    function,        \* the row function: row |-> what it does
    taskq,           \* the executor's FIFO work queue (row indices)
    busy,            \* worker |-> index of the row it runs (0: idle)
    value,           \* index |-> result, once the worker has returned
    nsub,            \* futures submitted so far (thread mode)
    collected,       \* indices whose result the caller has taken
    results_pool,    \* what run_parallel_pool returned
    results_threads, \* what run_parallel_threads returned / builds
    completion,      \* history: indices in completion order
    \* ---- row function state (SpecRow)
    chips,           \* chip_dir / dst_dir: file name |-> raster or NoFile
    labels,          \* label_dir: file name |-> raster or NoFile
    callerRow,       \* the caller's row object
    hist,            \* history: the last two calls
    \* ---- concurrent check-then-write state (SpecConc)
    crow,            \* worker |-> its catalog row
    cpc,             \* worker |-> position in the row function
    cfiles           \* the output directories: set of <<dir, file name>>

batchVars == <<pc, catalog, function, taskq, busy, value, nsub, collected,
               results_pool, results_threads, completion>>
rowVars   == <<chips, labels, callerRow, hist>>
concVars  == <<crow, cpc, cfiles>>
vars      == <<batchVars, rowVars, concVars>>

-----------------------------------------------------------------------------
(* Bounds *)
MaxRows  == 3    \* rows in a catalog (SpecBatch)
NWorkers == 2    \* nworkers
MaxDim   == 2    \* largest rows / cols of a chip (SpecRow)
MaxCalls == 3    \* calls of the row functions in one run (SpecRow)

-----------------------------------------------------------------------------
(* Python values *)
None == "None"
NoFile == [py |-> "nofile"]
Unset == [py |-> "unset"]
\* a Python object and a Python tuple, told apart as Python tells them apart
PyObj(v) == [py |-> "obj", v |-> v]
PyTuple(items) == [py |-> "tuple", items |-> items]

Range(s) == {s[i] : i \in DOMAIN s}

\* str(e) of an exception: '' without arguments (a bare assert), the
\* argument when there is one.
str(e) == IF e.args = <<>> THEN "" ELSE e.args[1]

Exc(type, args) == [type |-> type, args |-> args]

-----------------------------------------------------------------------------
(* SpecBatch: run_parallel_pool, run_parallel_threads, parallelize *)

RowVals == {"r1", "r2"}
Outcomes ==
    [kind : {"return"}, value : {"v1", "v2"}] \cup
    [kind : {"raise"}, exc : {Exc("AssertionError", <<>>),
                              Exc("ValueError", <<"m1">>)}]

Workers == 1..NWorkers

\* parallelize(params) with the except clause dropped to a bare None
parallelize_none(row, fn) ==
    IF fn[row].kind = "return" THEN PyObj(fn[row].value) ELSE PyObj(None)

\* parallelize: result = function(row, **args); an Exception becomes the
\* tuple (None, str(e)).
parallelize(row, fn) ==
    IF fn[row].kind = "return"
    THEN PyObj(fn[row].value)
    ELSE PyTuple(<<None, str(fn[row].exc)>>)

\* the future whose result the caller takes next, in completion order
NextFuture_completed(coll, val) ==
    IF \E i \in DOMAIN val : val[i] # Unset /\ i \notin Range(coll)
    THEN CHOOSE i \in DOMAIN val : val[i] # Unset /\ i \notin Range(coll)
    ELSE Len(coll) + 1

\* results = [future.result() for future in futures]: the futures are taken
\* in the order of the list, which is the order of the rows.
NextFuture(coll, val) == Len(coll) + 1

N == Len(catalog)

NoValues(n) == [i \in 1..n |-> Unset]

BatchInit ==
    /\ pc = "pool_map"
    /\ catalog \in UNION {[1..n -> RowVals] : n \in 0..MaxRows}
    /\ function \in [RowVals -> Outcomes]
    /\ taskq = <<>>
    /\ busy = [w \in Workers |-> 0]
    /\ value = NoValues(Len(catalog))
    /\ nsub = 0
    /\ collected = <<>>
    /\ results_pool = Unset
    /\ results_threads = Unset
    /\ completion = <<>>
    /\ chips = <<>> /\ labels = <<>> /\ callerRow = <<>> /\ hist = <<>>
    /\ crow = <<>> /\ cpc = <<>> /\ cfiles = {}

\* pool.map(self.parallelize, [(row, function, args) for row in rows]):
\* the tasks are queued in input order.
PoolMap ==
    /\ pc = "pool_map"
    /\ taskq' = [i \in 1..N |-> i]
    /\ pc' = "pool_wait"
    /\ UNCHANGED <<catalog, function, busy, value, nsub, collected,
                   results_pool, results_threads, completion>>
    /\ UNCHANGED <<rowVars, concVars>>

\* an idle worker takes the task at the head of the queue
WorkerTake(w) ==
    /\ pc \in {"pool_wait", "threads_submit", "threads_collect"}
    /\ busy[w] = 0
    /\ taskq # <<>>
    /\ busy' = [busy EXCEPT ![w] = Head(taskq)]
    /\ taskq' = Tail(taskq)
    /\ UNCHANGED <<pc, catalog, function, value, nsub, collected,
                   results_pool, results_threads, completion>>
    /\ UNCHANGED <<rowVars, concVars>>

\* the worker returns from parallelize; the result is stored with its task
WorkerFinish(w) ==
    /\ pc \in {"pool_wait", "threads_submit", "threads_collect"}
    /\ busy[w] # 0
    /\ value' = [value EXCEPT ![busy[w]] = parallelize(catalog[busy[w]], function)]
    /\ completion' = Append(completion, busy[w])
    /\ busy' = [busy EXCEPT ![w] = 0]
    /\ UNCHANGED <<pc, catalog, function, taskq, nsub, collected,
                   results_pool, results_threads>>
    /\ UNCHANGED <<rowVars, concVars>>

\* pool.map returns once every task has its result; the with block ends and
\* run_parallel_pool returns the list.  The caller then runs the same
\* catalog through run_parallel_threads.
PoolReturn ==
    /\ pc = "pool_wait"
    /\ \A i \in 1..N : value[i] # Unset
    /\ results_pool' = value
    /\ value' = NoValues(N)
    /\ completion' = <<>>
    /\ results_threads' = <<>>
    /\ pc' = "threads_submit"
    /\ UNCHANGED <<catalog, function, taskq, busy, nsub, collected>>
    /\ UNCHANGED <<rowVars, concVars>>

\* futures = [executor.submit(self.parallelize, (row, function, args)) ...]
ThreadSubmit ==
    /\ pc = "threads_submit"
    /\ IF nsub < N
       THEN /\ nsub' = nsub + 1
            /\ taskq' = Append(taskq, nsub + 1)
            /\ pc' = pc
       ELSE /\ pc' = "threads_collect"
            /\ UNCHANGED <<nsub, taskq>>
    /\ UNCHANGED <<catalog, function, busy, value, collected,
                   results_pool, results_threads, completion>>
    /\ UNCHANGED <<rowVars, concVars>>

\* results = [future.result() for future in futures]: blocks on the next
\* future until it is done.
ThreadCollect ==
    /\ pc = "threads_collect"
    /\ Len(collected) < N
    /\ LET i == NextFuture(collected, value) IN
        /\ value[i] # Unset
        /\ results_threads' = Append(results_threads, value[i])
        /\ collected' = Append(collected, i)
    /\ UNCHANGED <<pc, catalog, function, taskq, busy, value, nsub,
                   results_pool, completion>>
    /\ UNCHANGED <<rowVars, concVars>>

\* the with block ends; run_parallel_threads returns results
ThreadReturn ==
    /\ pc = "threads_collect"
    /\ Len(collected) = N
    /\ pc' = "done"
    /\ UNCHANGED <<catalog, function, taskq, busy, value, nsub, collected,
                   results_pool, results_threads, completion>>
    /\ UNCHANGED <<rowVars, concVars>>

BatchNext ==
    \/ PoolMap
    \/ \E w \in Workers : WorkerTake(w)
    \/ \E w \in Workers : WorkerFinish(w)
    \/ PoolReturn
    \/ ThreadSubmit
    \/ ThreadCollect
    \/ ThreadReturn

SpecBatch == BatchInit /\ [][BatchNext]_vars

-----------------------------------------------------------------------------
(* Strings are sequences of characters *)

Tif == <<".", "t", "i", "f">>
Us == <<"_">>

\* s.split(sep): the parts of s between occurrences of the character sep
RECURSIVE split(_, _)
split(s, sep) ==
    IF \A k \in DOMAIN s : s[k] # sep
    THEN <<s>>
    ELSE LET k == CHOOSE k \in DOMAIN s :
                      s[k] = sep /\ \A m \in 1..(k - 1) : s[m] # sep
         IN <<SubSeq(s, 1, k - 1)>> \o split(SubSeq(s, k + 1, Len(s)), sep)

\* s[:-3]
drop_last3(s) == SubSeq(s, 1, Len(s) - 3)

\* row with row[key] = val (a dict item assignment)
setitem(row, key, val) == (key :> val) @@ row

Return(v) == [kind |-> "return", value |-> v]
Raise(type, args) == [kind |-> "raise", exc |-> Exc(type, args)]

-----------------------------------------------------------------------------
(* image_chipper *)

\* Coordinates are fixed-point numbers in units of 1e-5.
W == 250            \* w = 0.0025
Decimals == 4       \* decimals = 4

RECURSIVE pow10(_)
pow10(n) == IF n = 0 THEN 1 ELSE 10 * pow10(n - 1)

\* np.round(v, decimals): to the nearest multiple of 10^-decimals, halves to
\* the even one
np_round(v, decimals) ==
    LET unit == pow10(5 - decimals)
        q == v \div unit
        rem == v % unit
    IN IF 2 * rem < unit THEN q * unit
       ELSE IF 2 * rem > unit THEN (q + 1) * unit
       ELSE IF q % 2 = 0 THEN q * unit ELSE (q + 1) * unit

\* target_poly(x, y, w).bounds: box(x-w, y-w, x+w, y+w)
target_poly(x, y, w) == <<x - w, y - w, x + w, y + w>>

\* template(bounds, rows, cols): transform.xy is given np.arange(cols) for
\* its rows and np.arange(rows) for its cols, so the coordinates fit the
\* (rows, cols) array only when rows = cols; otherwise building the
\* DataArray raises.
template(bounds, rows, cols) ==
    IF rows # cols
    THEN Raise("ValueError", <<"conflicting sizes">>)
    ELSE Return([bounds |-> bounds, shape |-> <<rows, cols>>])

\* image = f"{catrow['name']}_{catrow[date_col][:-3]}.tif"
chip_name(catrow, date_col) ==
    catrow["name"] \o Us \o drop_last3(catrow[date_col]) \o Tif

\* the existing file is rewritten whatever overwrite says
skip_existing_never(overwrite, exists) == FALSE

\* if not overwrite and os.path.exists(dst): skip
skip_existing(overwrite, exists) == ~overwrite /\ exists

\* the chip is written without its checks
chip_checks_none(chip, r, rows, cols) == "ok"

\* the two asserts on the reprojected chip: which one fails, if any
chip_checks(chip, r, rows, cols) ==
    IF chip.bounds # r.bounds THEN "wrong bounds"
    ELSE IF chip.shape # <<rows, cols>> THEN "wrong shape"
    ELSE "ok"

\* What reproject_match can hand back: the template's grid, or a raster
\* whose bounds or shape are off (env.dbounds, env.dshape).  tmpl records
\* the template it was matched to.
reproject_match(src, r, env) ==
    [bounds |-> <<r.bounds[1] + env.dbounds, r.bounds[2],
                  r.bounds[3] + env.dbounds, r.bounds[4]>>,
     shape  |-> <<r.shape[1] + env.dshape, r.shape[2]>>,
     data   |-> src,
     tmpl   |-> r,
     by     |-> "image_chipper"]

\* image_chipper(catrow, src_dir, dst_dir, src_col, date_col, w, rows, cols,
\* crs, decimals, overwrite), its keyword arguments in the record a: the
\* caller's row object after the call, what the call returns or raises, the
\* chip directory after it, and its events.
image_chipper(catrow, a, fs, env) ==
    LET src_col == a.src_col
        date_col == a.date_col
        w == a.w
        rows == a.rows
        cols == a.cols
        decimals == a.decimals
        overwrite == a.overwrite
        image == chip_name(catrow, date_col)
        row1 == setitem(catrow, "image", image)    \* catrow["image"] = image
        out(ret, files, ev, made) ==
            [row |-> row1, ret |-> ret, fs |-> files, events |-> ev,
             dst |-> image, made |-> made]
    IN
    IF skip_existing(overwrite, image \in DOMAIN fs)
    THEN out(Return(row1), fs, <<"exists, skipping">>, NoFile)
    ELSE
        LET tp == target_poly(catrow["x"], catrow["y"], w)
            bnds == [k \in 1..4 |-> np_round(tp[k], decimals)]
            r == template(bnds, rows, cols)
        IN
        IF r.kind = "raise" THEN out(r, fs, <<>>, NoFile)
        ELSE IF ~env.src_ok
        THEN out(Raise("RasterioIOError", <<"No such file">>), fs,
                 <<"open_rasterio">>, NoFile)
        ELSE
            LET chip == reproject_match(catrow[src_col], r.value, env)
                check == chip_checks(chip, r.value, rows, cols)
            IN
            IF check # "ok"
            THEN out(Raise("AssertionError", <<>>), fs,
                     <<"open_rasterio", check>>, chip)
            ELSE out(Return(row1), setitem(fs, image, chip),
                     <<"open_rasterio", "to_raster", "Created">>, chip)

-----------------------------------------------------------------------------
(* threeclass_label *)

\* Geometry is in the chip's pixel units: the chip covers [0, c] x [0, r],
\* pixel (i, j) has its centre at (j - 1/2, i - 1/2), and res is one pixel.
\* A field polygon is a box with integer corners.
Box(x0, x1, y0, y1) == [x0 |-> x0, x1 |-> x1, y0 |-> y0, y1 |-> y1]
is_empty(g) == g.x0 >= g.x1 \/ g.y0 >= g.y1

\* geometry.buffer(d): the box grown by d on every side (shrunk when d < 0;
\* the rounded corners of a grown box hold the same pixel centres)
buffer(g, d) == Box(g.x0 - d, g.x1 + d, g.y0 - d, g.y1 + d)

Max2(a, b) == IF a > b THEN a ELSE b
Min2(a, b) == IF a < b THEN a ELSE b

intersection(g, h) ==
    Box(Max2(g.x0, h.x0), Min2(g.x1, h.x1), Max2(g.y0, h.y0), Min2(g.y1, h.y1))

\* gpd.overlay(grid, shp, how='intersection'): each polygon clipped to the
\* chip's footprint, its other columns kept; polygons that miss the
\* footprint are dropped.
overlay(grid, shp) ==
    {[geometry |-> intersection(grid, f.geometry),
      buffer_in |-> f.buffer_in, buffer_out |-> f.buffer_out] :
        f \in {f \in shp : ~is_empty(intersection(grid, f.geometry))}}

covers(g, i, j) == g.x0 < j /\ j <= g.x1 /\ g.y0 < i /\ i <= g.y1

\* features.rasterize(shapes, fill=0, out=zeros((r, c)), transform): 1 where
\* a pixel centre lies in a shape; empty shapes are skipped, and with no
\* shape left to burn it raises ValueError.
rasterize(geoms, r, c) ==
    IF \A g \in geoms : is_empty(g)
    THEN Raise("ValueError", <<"No valid geometry objects found for rasterize">>)
    ELSE Return([i \in 1..r |-> [j \in 1..c |->
                    IF \E g \in geoms : covers(g, i, j) THEN 1 ELSE 0]])

\* uint8 arithmetic wraps modulo 256
u8(v) == v % 256

\* the combination without np.where: exploded*2 - burned is added as it is
combine_noadjust(burned, shrunk, exploded) ==
    u8(u8(u8(burned * 2) - shrunk) + u8(u8(exploded * 2) - burned))

\* burned * 2 - shrunk + np.where((exploded*2-burned)==1, 0,
\* exploded*2-burned).astype(np.uint8), on one pixel of the uint8 arrays
\* the combination without the shrunk layer subtracted
combine_noshrunk(burned, shrunk, exploded) ==
    LET d == u8(u8(exploded * 2) - burned)
        adj == IF d = 1 THEN 0 ELSE d
    IN u8(u8(burned * 2) + u8(adj))

combine(burned, shrunk, exploded) ==
    LET d == u8(u8(exploded * 2) - burned)
        adj == IF d = 1 THEN 0 ELSE d
    IN u8(u8(u8(burned * 2) - shrunk) + u8(adj))

\* lbl_name = f"{name_parts[0]}_{catrow['assignment_id']}_{name_parts[1]}"
\* with the assignment left out
label_name_noid(name_parts, assignment_id) ==
    name_parts[1] \o Us \o name_parts[2]

\* lbl_name = f"{name_parts[0]}_{catrow['assignment_id']}_{name_parts[1]}"
label_name(name_parts, assignment_id) ==
    name_parts[1] \o Us \o assignment_id \o Us \o name_parts[2]

\* every row has its fields burned, whatever nflds says
has_fields_always(nflds) == nflds >= 0

\* if catrow["nflds"] > 0
has_fields(nflds) == nflds > 0

\* the label is written without its checks
label_checks_none(chip, lbl_raster) == "ok"

\* the two asserts on the label raster: which one fails, if any
label_checks(chip, lbl_raster) ==
    IF chip.bounds # lbl_raster.bounds THEN "has incorrect bounds"
    ELSE IF chip.shape # lbl_raster.shape THEN "incorrect output shape"
    ELSE "ok"

\* xr.DataArray(lbl, coords={"y": chip["y"], "x": chip["x"]}): the label on
\* the chip's coordinates; env.dbounds is what the raster library may
\* report differently for the bounds of the two rasters.
lbl_raster_of(lbl, chip, env) ==
    [bounds |-> <<chip.bounds[1] + env.dbounds, chip.bounds[2],
                  chip.bounds[3] + env.dbounds, chip.bounds[4]>>,
     shape  |-> <<Len(lbl), Len(lbl[1])>>,
     data   |-> lbl,
     chip   |-> chip,
     by     |-> "threeclass_label"]

\* The label array of lines 228-280: Return(lbl), or the exception raised.
\* ev collects "fallback" when the except clause is entered.
label_array(catrow, fields, r, c, env) ==
    LET out_arr == [i \in 1..r |-> [j \in 1..c |-> 0]]
    IN
    IF ~has_fields(catrow["nflds"])
    THEN [res |-> Return(out_arr), ev |-> <<>>]
    ELSE
        LET grid == Box(0, c, 0, r)
            sel == {f \in fields : f.assignment_id = catrow["assignment_id"]}
            shp0 == {[geometry |-> f.geometry,
                      buffer_in |-> buffer(f.geometry, -1),
                      buffer_out |-> buffer(f.geometry, 1)] : f \in sel}
            shp == overlay(grid, shp0)
            burned == rasterize({f.geometry : f \in shp}, r, c)
            shrunk == rasterize({f.buffer_in : f \in shp}, r, c)
            exploded == IF env.explode_ok
                        THEN rasterize({f.buffer_out : f \in shp}, r, c)
                        ELSE Raise("ValueError", <<"rasterize">>)
        IN
        IF burned.kind = "raise" THEN [res |-> burned, ev |-> <<>>]
        ELSE IF shrunk.kind = "return" /\ exploded.kind = "return"
        THEN [res |-> Return([i \in 1..r |-> [j \in 1..c |->
                        combine(burned.value[i][j], shrunk.value[i][j],
                                exploded.value[i][j])]]),
              ev |-> <<>>]
        ELSE
            \* except: shp['buffer'] = shp.geometry.buffer(-res), taken of
            \* the clipped geometry; shrunk is rasterized again
            LET shrunk2 == rasterize({buffer(f.geometry, -1) : f \in shp}, r, c)
            IN
            IF shrunk2.kind = "raise"
            THEN [res |-> shrunk2, ev |-> <<"fallback">>]
            \* line 274 reads exploded, which the try never bound
            ELSE [res |-> Raise("UnboundLocalError", <<"exploded">>),
                  ev |-> <<"fallback">>]

\* threeclass_label(catrow, label_dir, chip_dir, src_col, fields, overwrite):
\* the caller's row object after the call, what the call returns or raises,
\* the label directory after it, and its events.
threeclass_label(catrow, src_col, fields, overwrite, chipfs, fs, env) ==
    LET outm(ret, files, ev, dst, made) ==
            [row |-> catrow, ret |-> ret, fs |-> files, events |-> ev,
             dst |-> dst, made |-> made]
        out(ret, files, ev, dst) == outm(ret, files, ev, dst, NoFile)
    IN
    IF src_col \notin DOMAIN catrow
    THEN out(Raise("KeyError", <<src_col>>), fs, <<>>, <<>>)
    ELSE
    LET name_parts == split(catrow[src_col], "_") IN
    IF Len(name_parts) < 2
    THEN out(Raise("IndexError", <<"list index out of range">>), fs, <<>>, <<>>)
    ELSE
    LET lbl_name == label_name(name_parts, catrow["assignment_id"])
        \* catrow_out = catrow.copy(); catrow_out["label"] = lbl_name
        catrow_out == setitem(catrow, "label", lbl_name)
    IN
    IF skip_existing(overwrite, lbl_name \in DOMAIN fs)
    THEN out(Return(catrow_out), fs, <<"exists, skipping">>, lbl_name)
    ELSE IF catrow[src_col] \notin DOMAIN chipfs
    THEN out(Raise("RasterioIOError", <<"No such file">>), fs,
             <<"open_rasterio">>, lbl_name)
    ELSE
        LET chip == chipfs[catrow[src_col]]
            r == chip.shape[1]
            c == chip.shape[2]
            la == label_array(catrow, fields, r, c, env)
        IN
        IF la.res.kind = "raise"
        THEN out(la.res, fs, <<"open_rasterio">> \o la.ev, lbl_name)
        ELSE
            LET lbl_raster == lbl_raster_of(la.res.value, chip, env)
                check == label_checks(chip, lbl_raster)
            IN
            IF check # "ok"
            THEN outm(Raise("AssertionError", <<>>), fs,
                      <<"open_rasterio">> \o la.ev \o <<check>>, lbl_name,
                      lbl_raster)
            ELSE outm(Return(catrow_out), setitem(fs, lbl_name, lbl_raster),
                      <<"open_rasterio">> \o la.ev \o <<"to_raster", "Created">>,
                      lbl_name, lbl_raster)

-----------------------------------------------------------------------------
(* SpecRow: a caller calls image_chipper and threeclass_label on its row *)

NameA  == <<"a">>
NameAB == <<"a", "_", "b">>
Date1  == <<"7", "-", "0", "1">>     \* month 7, day 01
Date2  == <<"7", "-", "0", "2">>     \* month 7, day 02
Date3  == <<"8", "-", "0", "1">>     \* month 8, day 01
Aid1   == <<"1">>
Aid2   == <<"2">>
Src    == <<"s", ".", "t", "i", "f">>

CatRow(name, date, x, y, aid, nflds) ==
    [name |-> name, date |-> date, x |-> x, y |-> y, src |-> Src,
     assignment_id |-> aid, nflds |-> nflds]

\* x = 10.0 and x = 10.00005 (whose bounds np.round moves)
RowSet ==
    {CatRow(NameA, Date1, 1000000, 2000000, Aid1, nflds) : nflds \in 0..1} \cup
    {CatRow(NameAB, Date1, 1000005, 2000000, Aid1, nflds) : nflds \in 0..1}

Dims == 1..MaxDim
Coord == (-1)..(MaxDim + 1)

\* field polygons: boxes over the full height of the largest chip, at every
\* pair of x coordinates, and the box of pixel (1, 1)
PixelBox == Box(0, 1, 0, 1)
Boxes ==
    {b \in {Box(x0, x1, -1, MaxDim + 1) : x0 \in Coord, x1 \in Coord} :
        ~is_empty(b)} \cup {PixelBox}
Field(aid, g) == [assignment_id |-> aid, geometry |-> g]
OtherField == Field(Aid2, Box(-1, MaxDim + 1, -1, MaxDim + 1))
\* no field; one field of the row's assignment, alone, with the pixel box or
\* with a field of another assignment; the other assignment's field alone
FieldSets ==
    {{}, {OtherField}} \cup
    UNION {{{Field(Aid1, b), g} :
                g \in {Field(Aid1, b), Field(Aid1, PixelBox), OtherField}} :
           b \in Boxes}

\* what the raster library does in a call: all well, or one fault
ChipEnv ==
    {[src_ok |-> TRUE,  dbounds |-> 0,  dshape |-> 0],
     [src_ok |-> FALSE, dbounds |-> 0,  dshape |-> 0],
     [src_ok |-> TRUE,  dbounds |-> 10, dshape |-> 0],
     [src_ok |-> TRUE,  dbounds |-> 0,  dshape |-> 1]}
LabelEnv ==
    {[explode_ok |-> TRUE,  dbounds |-> 0],
     [explode_ok |-> FALSE, dbounds |-> 0],
     [explode_ok |-> TRUE,  dbounds |-> 10]}

\* a chip or a label that was on disk before the run
OldChip == [bounds |-> <<0, 0, 20, 20>>, shape |-> <<2, 1>>,
            data |-> Src, tmpl |-> NoFile, by |-> "other"]
OldLabel == [bounds |-> <<0, 0, 20, 20>>, shape |-> <<1, 1>>,
             data |-> <<<<7>>>>, chip |-> OldChip, by |-> "other"]

NoCall == [fn |-> "none"]

file_at(files, name) == IF name \in DOMAIN files THEN files[name] ELSE NoFile

\* what the history keeps of the last call, and of the one before it
CallRecord(fn, overwrite, rowBefore, filesBefore, res, nsel) ==
    [fn |-> fn, overwrite |-> overwrite, rowBefore |-> rowBefore,
     ret |-> res.ret, events |-> res.events, dst |-> res.dst,
     made |-> res.made, changed |-> res.fs # filesBefore, nsel |-> nsel]
PrevRecord(cur, files) ==
    IF cur.fn = "none" THEN NoCall
    ELSE [fn |-> cur.fn, overwrite |-> cur.overwrite,
          returned |-> cur.ret.kind = "return",
          fileAfter |-> file_at(files, cur.dst)]

RowInit ==
    /\ callerRow \in RowSet
    /\ chips \in {<<>>, chip_name(callerRow, "date") :> OldChip}
    /\ labels \in
        {<<>>,
         label_name(split(chip_name(callerRow, "date"), "_"),
                    callerRow["assignment_id"]) :> OldLabel}
    /\ hist = [n |-> 0, prev |-> NoCall, cur |-> NoCall]
    /\ pc = "row" /\ catalog = <<>> /\ function = <<>> /\ taskq = <<>>
    /\ busy = <<>> /\ value = <<>> /\ nsub = 0 /\ collected = <<>>
    /\ results_pool = <<>> /\ results_threads = <<>> /\ completion = <<>>
    /\ crow = <<>> /\ cpc = <<>> /\ cfiles = {}

\* the files of the directory the last call wrote to
FilesOf(cur) == IF cur.fn = "image_chipper" THEN chips ELSE labels

\* the caller calls image_chipper(callerRow, ...)
CallChipper ==
    /\ hist.n < MaxCalls
    /\ \E overwrite \in BOOLEAN, rows \in Dims, cols \in Dims, env \in ChipEnv :
        LET args == [src_col |-> "src", date_col |-> "date", w |-> W,
                     rows |-> rows, cols |-> cols, decimals |-> Decimals,
                     overwrite |-> overwrite]
            res == image_chipper(callerRow, args, chips, env)
        IN /\ callerRow' = res.row
           /\ chips' = res.fs
           /\ hist' = [n |-> hist.n + 1,
                       prev |-> PrevRecord(hist.cur, FilesOf(hist.cur)),
                       cur |-> CallRecord("image_chipper", overwrite,
                                          callerRow, chips, res, 0)]
    /\ UNCHANGED <<labels, batchVars, concVars>>

\* the caller calls threeclass_label(callerRow, ..., src_col="image", ...)
CallLabel ==
    /\ hist.n < MaxCalls
    /\ \E overwrite \in BOOLEAN, fields \in FieldSets, env \in LabelEnv :
        LET res == threeclass_label(callerRow, "image", fields, overwrite,
                                    chips, labels, env)
            nsel == Cardinality({f \in fields :
                        f.assignment_id = callerRow["assignment_id"]})
        IN /\ callerRow' = res.row
           /\ labels' = res.fs
           /\ hist' = [n |-> hist.n + 1,
                       prev |-> PrevRecord(hist.cur, FilesOf(hist.cur)),
                       cur |-> CallRecord("threeclass_label", overwrite,
                                          callerRow, labels, res, nsel)]
    /\ UNCHANGED <<chips, batchVars, concVars>>

RowNext == CallChipper \/ CallLabel

SpecRow == RowInit /\ [][RowNext]_vars

-----------------------------------------------------------------------------
(* SpecConc: two workers of one batch run, each running the row function on
   its own catalog row; the check for an existing file and the write are
   separate steps, as they are for concurrent workers *)

Aid12 == <<"1", "_", "2">>
ConcWorkers == {1, 2}

\* the rows of the second pass carry the chip name image_chipper gave them
ConcRows ==
    {setitem(row, "image", chip_name(row, "date")) :
        row \in {CatRow(name, date, 1000000, 2000000, aid, 1) :
                    name \in {NameA, NameAB}, date \in {Date1, Date2, Date3},
                    aid \in {Aid1, Aid2, Aid12}}}

\* dst of the row function fn for a row: the directory and the file name
dst_of(fn, row) ==
    IF fn = "image_chipper"
    THEN <<"dst_dir", chip_name(row, "date")>>
    ELSE <<"label_dir", label_name(split(row["image"], "_"),
                                   row["assignment_id"])>>

ConcInit ==
    /\ crow \in [ConcWorkers -> ConcRows]
    /\ cpc \in {[w \in ConcWorkers |->
                    [fn |-> fn, overwrite |-> ow, at |-> "start", dst |-> <<>>]] :
                fn \in {"image_chipper", "threeclass_label"}, ow \in BOOLEAN}
    /\ cfiles \in {{}, {dst_of(cpc[1].fn, crow[1])}}
    /\ pc = "conc" /\ catalog = <<>> /\ function = <<>> /\ taskq = <<>>
    /\ busy = <<>> /\ value = <<>> /\ nsub = 0 /\ collected = <<>>
    /\ results_pool = <<>> /\ results_threads = <<>> /\ completion = <<>>
    /\ chips = <<>> /\ labels = <<>> /\ callerRow = <<>> /\ hist = <<>>

\* lines 137-146 / 210-216: the output name, and the test for the file
ConcCheck(w) ==
    /\ cpc[w].at = "start"
    /\ LET dst == dst_of(cpc[w].fn, crow[w]) IN
        cpc' = [cpc EXCEPT ![w].dst = dst,
                           ![w].at = IF skip_existing(cpc[w].overwrite,
                                                      dst \in cfiles)
                                     THEN "skipped" ELSE "creating"]
    /\ UNCHANGED <<crow, cfiles, batchVars, rowVars>>

\* lines 175 / 304: to_raster(dst)
ConcWrite(w) ==
    /\ cpc[w].at = "creating"
    /\ cfiles' = cfiles \cup {cpc[w].dst}
    /\ cpc' = [cpc EXCEPT ![w].at = "wrote"]
    /\ UNCHANGED <<crow, batchVars, rowVars>>

\* the row function raises between the test and the write
ConcRaise(w) ==
    /\ cpc[w].at = "creating"
    /\ cpc' = [cpc EXCEPT ![w].at = "raised"]
    /\ UNCHANGED <<crow, cfiles, batchVars, rowVars>>

ConcNext ==
    \/ \E w \in ConcWorkers : ConcCheck(w)
    \/ \E w \in ConcWorkers : ConcWrite(w)
    \/ \E w \in ConcWorkers : ConcRaise(w)

SpecConc == ConcInit /\ [][ConcNext]_vars

-----------------------------------------------------------------------------
(* SpecLabel: the label array of one call of threeclass_label, kept with the
   three rasterized layers it was combined from *)

\* chips of every height up to MaxDim and every width up to MaxDim + 2 (wide
\* enough for a field, its boundary ring and background side by side)
LabelShapes == {<<r, c>> : r \in Dims, c \in 1..(MaxDim + 2)}

\* burned, shrunk and exploded of lines 240-262 for the polygons of the
\* row's assignment that meet the chip (each Return(array) or the exception)
layers_of(catrow, fields, r, c) ==
    LET sel == {f \in fields : f.assignment_id = catrow["assignment_id"]}
        shp == overlay(Box(0, c, 0, r),
                       {[geometry |-> f.geometry,
                         buffer_in |-> buffer(f.geometry, -1),
                         buffer_out |-> buffer(f.geometry, 1)] : f \in sel})
    IN [burned   |-> rasterize({f.geometry : f \in shp}, r, c),
        shrunk   |-> rasterize({f.buffer_in : f \in shp}, r, c),
        exploded |-> rasterize({f.buffer_out : f \in shp}, r, c)]

LabelInit ==
    /\ hist \in [stage : {"input"},
                 catrow : {CatRow(NameA, Date1, 1000000, 2000000, Aid1, nflds) :
                            nflds \in 0..1},
                 shape : LabelShapes,
                 fields : FieldSets,
                 env : LabelEnv]
    /\ chips = <<>> /\ labels = <<>> /\ callerRow = <<>>
    /\ pc = "label" /\ catalog = <<>> /\ function = <<>> /\ taskq = <<>>
    /\ busy = <<>> /\ value = <<>> /\ nsub = 0 /\ collected = <<>>
    /\ results_pool = <<>> /\ results_threads = <<>> /\ completion = <<>>
    /\ crow = <<>> /\ cpc = <<>> /\ cfiles = {}

\* lines 228-280 run on the opened chip: lbl is computed, or the call raises
LabelCompute ==
    /\ hist.stage = "input"
    /\ LET r == hist.shape[1]
           c == hist.shape[2]
           la == label_array(hist.catrow, hist.fields, r, c, hist.env)
       IN hist' = [stage |-> "done", catrow |-> hist.catrow,
                   shape |-> hist.shape, fields |-> hist.fields,
                   env |-> hist.env, res |-> la.res, events |-> la.ev,
                   layers |-> layers_of(hist.catrow, hist.fields, r, c)]
    /\ UNCHANGED <<chips, labels, callerRow, batchVars, concVars>>

LabelNext == LabelCompute

SpecLabel == LabelInit /\ [][LabelNext]_vars

-----------------------------------------------------------------------------
(* Claims about the batch runners (checked under SpecBatch) *)

Failing == {i \in 1..N : function[catalog[i]].kind = "raise"}
PoolReturned == pc \in {"threads_submit", "threads_collect", "done"}
ThreadsReturned == pc = "done"

\* the list the claim promises: the tagged error at a failing row's index,
\* the row function's value everywhere else
Isolated(results) ==
    /\ Len(results) = N
    /\ \A i \in 1..N :
        results[i] = IF i \in Failing
                     THEN PyTuple(<<None, str(function[catalog[i]].exc)>>)
                     ELSE PyObj(function[catalog[i]].value)

\* C1 (batch isolation): when the row function raises for exactly one row,
\* both run_parallel_pool and run_parallel_threads return a list of exactly
\* N entries holding (None, error_message) at the failing row's index and
\* the row function's value at every other index; the run is never stuck
\* before it returns.
C1_BatchIsolation ==
    Cardinality(Failing) = 1 =>
        /\ PoolReturned => Isolated(results_pool)
        /\ ThreadsReturned => Isolated(results_threads)
        /\ pc # "done" => ENABLED BatchNext

\* C1 witness: a batch of MaxRows rows has returned in both modes, exactly
\* one row (not the last to complete) raised, and its neighbours returned.
C1_Witness ==
    /\ pc = "done"
    /\ N = MaxRows
    /\ Cardinality(Failing) = 1
    /\ completion[N] \notin Failing
    /\ results_threads[CHOOSE i \in Failing : TRUE].py = "tuple"

\* C2 (ordering): in both modes the i-th entry of the returned list is the
\* result (or error tuple) of the i-th input row, whatever the completion
\* order of the workers, and the two modes return the same list.
C2_Ordering ==
    /\ PoolReturned =>
        /\ Len(results_pool) = N
        /\ \A i \in 1..N : results_pool[i] = parallelize(catalog[i], function)
    /\ pc \in {"threads_collect", "done"} =>
        \A i \in 1..Len(results_threads) :
            results_threads[i] = parallelize(catalog[i], function)
    /\ ThreadsReturned =>
        /\ Len(results_threads) = N
        /\ results_threads = results_pool

\* C2 witness: the thread workers completed the rows out of input order,
\* the rows have different results, and both lists have been returned.
C2_Witness ==
    /\ pc = "done"
    /\ N >= 2
    /\ \E i, j \in 1..N : i < j /\ completion[i] > completion[j]
    /\ results_pool[1] # results_pool[2]

-----------------------------------------------------------------------------
(* Claims about concurrent workers (checked under SpecConc) *)

Targets(w) == cpc[w].at \in {"creating", "wrote"}

\* C3 as stated (no write collisions): no two distinct catalog rows (rows of
\* two assignments) are ever both past the test for an existing file and
\* writing the same chip file or the same label file, for every catalog,
\* several assignments of one site name and date included.
C3_NoWriteCollisions ==
    \A w1, w2 \in ConcWorkers :
        ( /\ crow[w1]["assignment_id"] # crow[w2]["assignment_id"]
          /\ Targets(w1) /\ Targets(w2) ) =>
            cpc[w1].dst # cpc[w2].dst

\* C3 as amended: two rows write the same label file only when they hold the
\* same assignment_id, and the same chip file only when they hold the same
\* name and the same truncated date (dates hold no underscore).
C3_PathsByKey ==
    \A w1, w2 \in ConcWorkers :
        w1 # w2 /\ Targets(w1) /\ Targets(w2) /\ cpc[w1].dst = cpc[w2].dst =>
            IF cpc[w1].fn = "threeclass_label"
            THEN crow[w1]["assignment_id"] = crow[w2]["assignment_id"]
            ELSE /\ crow[w1]["name"] = crow[w2]["name"]
                 /\ drop_last3(crow[w1]["date"]) = drop_last3(crow[w2]["date"])

\* C3 witness: two rows of the same site name and month with different
\* assignments have both written their labels, to different files.
C3_Witness ==
    /\ cpc[1].fn = "threeclass_label"
    /\ cpc[1].at = "wrote" /\ cpc[2].at = "wrote"
    /\ crow[1]["name"] = crow[2]["name"]
    /\ crow[1]["date"] = crow[2]["date"]
    /\ crow[1]["assignment_id"] = Aid12
    /\ crow[2]["assignment_id"] = Aid1
    /\ cpc[1].dst # cpc[2].dst

-----------------------------------------------------------------------------
(* Claims about the row functions (checked under SpecRow) *)

Cur == hist.cur
Prev == hist.prev
Events(c) == Range(c.events)

OutputKey(fn) == IF fn = "image_chipper" THEN "image" ELSE "label"

\* C4 (idempotent skip): when image_chipper (or threeclass_label) is called
\* twice in sequence on the same row with overwrite=False and the first call
\* returned, the output file after the second call is the file after the
\* first, the second call neither writes nor opens a raster (it only logs the
\* skip), and it returns the row with the output-name field set.
C4_IdempotentSkip ==
    ( /\ Prev.fn # "none" /\ Prev.fn = Cur.fn
      /\ ~Prev.overwrite /\ ~Cur.overwrite
      /\ Prev.returned ) =>
        /\ Prev.fileAfter # NoFile
        /\ file_at(FilesOf(Cur), Cur.dst) = Prev.fileAfter
        /\ ~Cur.changed
        /\ Cur.events = <<"exists, skipping">>
        /\ Cur.ret = Return(setitem(Cur.rowBefore, OutputKey(Cur.fn), Cur.dst))

\* C4 witness: threeclass_label created a label and was called again with
\* overwrite=False.
C4_Witness ==
    /\ Prev.fn = "threeclass_label" /\ Cur.fn = "threeclass_label"
    /\ ~Prev.overwrite /\ ~Cur.overwrite
    /\ Prev.returned
    /\ Prev.fileAfter.by = "threeclass_label"
    /\ Cur.events = <<"exists, skipping">>

\* C5 (buffer-failure fallback): when rasterizing the inward and outward
\* buffers raises inside threeclass_label, the call falls back to the inward
\* buffer alone, completes, and persists a label; it does not raise.
C5_FallbackRecovers ==
    (Cur.fn = "threeclass_label" /\ "fallback" \in Events(Cur)) =>
        /\ Cur.ret.kind = "return"
        /\ "to_raster" \in Events(Cur)
        /\ file_at(labels, Cur.dst) # NoFile

Pixels(lbl) == {lbl.data[i][j] : i \in 1..lbl.shape[1], j \in 1..lbl.shape[2]}
Written(files) == {files[n] : n \in {n \in DOMAIN files : files[n].by # "other"}}

\* C6 (class range): every pixel of every label raster threeclass_label
\* wrote is 0, 1 or 2, the combination being computed in uint8 arithmetic.
C6_ClassRange ==
    \A lbl \in Written(labels) : Pixels(lbl) \subseteq {0, 1, 2}

\* C6 witness: a written label with an interior pixel and a boundary pixel.
C6_Witness ==
    \E lbl \in Written(labels) : {1, 2} \subseteq Pixels(lbl)

\* the template bounds of the caller's row: x -+ w, y -+ w, rounded
TemplateBounds(row) ==
    <<np_round(row["x"] - W, Decimals), np_round(row["y"] - W, Decimals),
      np_round(row["x"] + W, Decimals), np_round(row["y"] + W, Decimals)>>

Mismatch(made, ref) == made.bounds # ref.bounds \/ made.shape # ref.shape

\* C7 (chip validation): every chip file image_chipper wrote has the bounds
\* of the template grid and the shape (rows, cols); when the reprojected
\* raster mismatches in bounds or shape the call raises and the chip
\* directory is left as it was.
C7_ChipValidation ==
    /\ \A chip \in Written(chips) :
        /\ chip.bounds = TemplateBounds(callerRow)
        /\ chip.shape = chip.tmpl.shape
        /\ chip.tmpl.bounds = chip.bounds
    /\ (Cur.fn = "image_chipper" /\ Cur.made # NoFile
            /\ Mismatch(Cur.made, Cur.made.tmpl)) =>
        /\ Cur.ret.kind = "raise"
        /\ ~Cur.changed

\* C7 witness: a chip written by an earlier call is on disk, with bounds that
\* rounding moved, and the last call raised on a mismatch.
C7_Witness ==
    /\ Written(chips) # {}
    /\ callerRow["x"] - W # TemplateBounds(callerRow)[1]
    /\ Cur.fn = "image_chipper" /\ Cur.made # NoFile
    /\ Mismatch(Cur.made, Cur.made.tmpl)
    /\ Cur.ret.kind = "raise"

\* C8 (label-grid alignment): every label file threeclass_label wrote has
\* the bounds and the spatial shape of the chip it was produced from; on a
\* mismatch the call raises and the label directory is left as it was.
C8_LabelAlignment ==
    /\ \A lbl \in Written(labels) :
        /\ lbl.bounds = lbl.chip.bounds
        /\ lbl.shape = lbl.chip.shape
        /\ Len(lbl.data) = lbl.chip.shape[1]
        /\ \A i \in 1..Len(lbl.data) : Len(lbl.data[i]) = lbl.chip.shape[2]
    /\ (Cur.fn = "threeclass_label" /\ Cur.made # NoFile
            /\ Mismatch(Cur.made, Cur.made.chip)) =>
        /\ Cur.ret.kind = "raise"
        /\ ~Cur.changed

\* C8 witness: a label produced from a chip that image_chipper wrote is on
\* disk, and the last call raised on a bounds mismatch.
C8_Witness ==
    /\ \E lbl \in Written(labels) : lbl.chip.by = "image_chipper"
    /\ Cur.fn = "threeclass_label" /\ Cur.made # NoFile
    /\ Mismatch(Cur.made, Cur.made.chip)
    /\ Cur.ret.kind = "raise"

\* C9 (zero-field case): for a row with nflds = 0 every label
\* threeclass_label writes is all zeros with the chip's shape, whatever the
\* fields polygon set holds.
C9_ZeroFields ==
    callerRow["nflds"] = 0 =>
        \A lbl \in Written(labels) :
            /\ Pixels(lbl) = {0}
            /\ lbl.shape = lbl.chip.shape
            /\ Len(lbl.data) = lbl.shape[1]
            /\ \A i \in 1..Len(lbl.data) : Len(lbl.data[i]) = lbl.shape[2]

\* C9 witness: a label was written for a row with nflds = 0 while fields
\* held polygons of the row's assignment.
C9_Witness ==
    /\ callerRow["nflds"] = 0
    /\ Cur.fn = "threeclass_label"
    /\ "to_raster" \in Events(Cur)
    /\ Cur.nsel > 0
    /\ file_at(labels, Cur.dst).shape = <<MaxDim, MaxDim>>

\* C10 (read-only rows): after a call of image_chipper or threeclass_label
\* that returns, the caller's row is what it was before the call and the
\* returned row is the input row plus the output file name.
C10_ReadOnlyRows ==
    (Cur.fn # "none" /\ Cur.ret.kind = "return") =>
        /\ callerRow = Cur.rowBefore
        /\ Cur.ret.value = setitem(Cur.rowBefore, OutputKey(Cur.fn), Cur.dst)

-----------------------------------------------------------------------------
(* Claims about the label array (checked under SpecLabel) *)

\* adjust(v) = 0 if v == 1 else v, on integers
Adjust(v) == IF v = 1 THEN 0 ELSE v

\* the label of a row with fields has been computed
Labelled ==
    /\ hist.stage = "done"
    /\ hist.catrow["nflds"] > 0
    /\ hist.res.kind = "return"

\* C11 (three-class combination): every pixel of the label equals
\* burned*2 - shrunk + adjust(exploded*2 - burned) with adjust(v) = 0 if
\* v == 1 else v; where shrunk <= burned <= exploded the pixel is 1 exactly
\* when it is in the shrunk layer, 2 exactly when it is in the exploded layer
\* but not in the shrunk layer, and 0 exactly when it is not in the exploded
\* layer.
C11_ThreeClass ==
    Labelled =>
        \A i \in 1..hist.shape[1], j \in 1..hist.shape[2] :
            LET b == hist.layers.burned.value[i][j]
                s == hist.layers.shrunk.value[i][j]
                e == hist.layers.exploded.value[i][j]
                v == hist.res.value[i][j]
            IN /\ v = b * 2 - s + Adjust(e * 2 - b)
               /\ (s <= b /\ b <= e) =>
                    /\ (v = 1) <=> (s = 1)
                    /\ (v = 2) <=> (e = 1 /\ s = 0)
                    /\ (v = 0) <=> (e = 0)

\* C11 witness: one label row holds a field interior pixel, a boundary pixel
\* inside the field, a boundary pixel outside it and a background pixel.
C11_Witness ==
    /\ Labelled
    /\ \E i \in 1..hist.shape[1] :
        \E j1, j2, j3, j4 \in 1..hist.shape[2] :
            /\ hist.res.value[i][j1] = 1
            /\ hist.res.value[i][j2] = 2 /\ hist.layers.burned.value[i][j2] = 1
            /\ hist.res.value[i][j3] = 2 /\ hist.layers.burned.value[i][j3] = 0
            /\ hist.res.value[i][j4] = 0

====
